---- MODULE Spec2Model ----
(***************************************************************************)
(* Strike lifecycle engine of HammerOfJustice: the SQLite store            *)
(* (database.py), the strike manager (strike_manager.py) and the           *)
(* escalation table (config.py).                                           *)
(*                                                                         *)
(* The bot runs on one asyncio event loop, so a coroutine runs without     *)
(* interruption from one suspension point to the next.  Acquiring the      *)
(* uncontended asyncio.Lock and calling sqlite3 do not suspend; the only   *)
(* suspension point inside give_strike is `await user.timeout(...)`.       *)
(* Each action below is one such uninterrupted run of a handler.           *)
(*                                                                         *)
(* Time is counted in hours; datetime values are stored by sqlite3 as ISO  *)
(* text whose lexicographic order is the chronological order, so they are  *)
(* compared here as numbers.                                               *)
(***************************************************************************)
EXTENDS Integers, Sequences, FiniteSets, TLC

VARIABLES
    strikes,      \* table strikes: row i has id i (AUTOINCREMENT, rows never deleted)
    violations,   \* table violations: user_id -> violation_count, for the rows present
    pending,      \* give_strike calls suspended at `await user.timeout(...)`
    timeoutLog,   \* per user, the timed suspensions requested from the platform
    lastCall,     \* the most recent engine call: what it returned, and whether it
                  \* wrote to the store with or without holding _db_lock
    clock,        \* datetime.now(), in hours
    ioFaults,     \* whether sqlite operations may raise in this run
    strikeCap,    \* number of rows after which no further strike is issued
    dbBusy,       \* whether another connection holds the write lock of the database file
    dash,         \* the dashboard: table bot_state, the platform's channel and
                  \* messages, the periodic loop and the on_ready handler
    embed         \* create_dashboard_embed: the call in progress and the last embed built

vars == <<strikes, violations, pending, timeoutLog, lastCall, clock, ioFaults,
          strikeCap, dbBusy, dash, embed>>

----------------------------------------------------------------------------
\* Bounds of the model

MaxStrikes == 4
MaxClock == 144
MaxPrior == 8
MaxFaultyStrikes == 3
MaxLiveStrikes == 3
MaxChannels == 1
MaxMessages == 2
MaxSummaryStrikes == 3
MaxReasonLen == 52

Users == {1, 2}
Moderators == {9}
Reasons == {"spam"}

\* config.py
STRIKE_RESET_HOURS == 72

PUNISHMENT_ESCALATION ==
    (1 :> 5) @@ (2 :> 10) @@ (3 :> 60) @@ (4 :> 120) @@ (5 :> 180) @@ (6 :> 1440)

\* the default of PUNISHMENT_ESCALATION.get(violation_count, 1440)
DefaultTimeout == 1440

\* Python's None where a datetime is expected
None == 0 - 1

TickSteps == {STRIKE_RESET_HOURS}

\* How a sqlite call of a store method may end: "connect" is an error raised by
\* get_connection(), which every method calls before its try block, and
\* "execute" one raised by execute/commit inside it.
IOOutcomes == IF ioFaults THEN {"ok", "connect", "execute"} ELSE {"ok"}

\* How an INSERT or UPDATE may end.  While another connection holds the write
\* lock of the database file (dbBusy), sqlite retries for busy_timeout = 10000 ms
\* and then raises OperationalError("database is locked") from execute; readers
\* of a WAL database are not blocked.
WriteOutcomes == IF dbBusy THEN {"execute"} ELSE IOOutcomes

\* What a mutating store method does with an I/O error: an error in
\* get_connection() propagates; add_strike re-raises from its except block, while
\* reset_expired_strikes and increment_violation_count return a default from it.
StoreError(method, io) ==
    [method |-> method, raised |-> (io = "connect" \/ method = "add_strike")]

----------------------------------------------------------------------------
\* database.py: the queries

\* CountActive without `AND active = 1`
CountActive_IgnoringActiveFlag(tbl, user_id) ==
    Cardinality({i \in DOMAIN tbl : tbl[i].user_id = user_id})

\* SELECT COUNT(*) FROM strikes WHERE user_id = ? AND active = 1
RECURSIVE CountActive(_, _)
CountActive(tbl, user_id) ==
    IF tbl = <<>> THEN 0
    ELSE (IF Head(tbl).user_id = user_id /\ Head(tbl).active = 1 THEN 1 ELSE 0)
         + CountActive(Tail(tbl), user_id)

\* SELECT MIN(reset_time) FROM strikes WHERE user_id = ? AND active = 1
RECURSIVE MinResetTime(_, _)
MinResetTime(tbl, user_id) ==
    IF tbl = <<>> THEN None
    ELSE LET rest == MinResetTime(Tail(tbl), user_id)
             row == Head(tbl)
         IN IF row.user_id = user_id /\ row.active = 1
            THEN IF rest = None \/ row.reset_time < rest THEN row.reset_time ELSE rest
            ELSE rest

get_violation_count(viol, user_id) ==
    IF user_id \in DOMAIN viol THEN viol[user_id] ELSE 0

get_user_strike_info(tbl, viol, user_id) ==
    [active_strikes  |-> CountActive(tbl, user_id),
     next_reset      |-> MinResetTime(tbl, user_id),
     violation_count |-> get_violation_count(viol, user_id)]

\* get_active_strikes: ... WHERE user_id = ? AND active = 1 ORDER BY timestamp DESC.
\* The ids that may come first: SQL leaves the order of equal timestamps open.
FirstActiveStrikes(tbl, user_id) ==
    LET act == {i \in DOMAIN tbl : tbl[i].user_id = user_id /\ tbl[i].active = 1}
    IN {i \in act : \A j \in act : tbl[j].timestamp <= tbl[i].timestamp}

----------------------------------------------------------------------------
\* database.py: the writes (each returns the new table and the value returned)

\* add_strike counting before its INSERT
add_strike_CountBeforeInsert(tbl, user_id, moderator_id, reason, reset_hours, now) ==
    LET row == [id           |-> Len(tbl) + 1,
                user_id      |-> user_id,
                moderator_id |-> moderator_id,
                reason       |-> reason,
                timestamp    |-> now,
                reset_time   |-> now + reset_hours,
                active       |-> 1]
    IN [strikes      |-> Append(tbl, row),
        strike_id    |-> row.id,
        strike_count |-> CountActive(tbl, user_id)]

\* add_strike reporting the count as shown in "n/3"
add_strike_CountCappedAtThree(tbl, user_id, moderator_id, reason, reset_hours, now) ==
    LET row == [id           |-> Len(tbl) + 1,
                user_id      |-> user_id,
                moderator_id |-> moderator_id,
                reason       |-> reason,
                timestamp    |-> now,
                reset_time   |-> now + reset_hours,
                active       |-> 1]
        new == Append(tbl, row)
        n   == CountActive(new, user_id)
    IN [strikes      |-> new,
        strike_id    |-> row.id,
        strike_count |-> IF n > 3 THEN 3 ELSE n]

\* add_strike with timedelta(days=reset_hours)
add_strike_WindowInDays(tbl, user_id, moderator_id, reason, reset_hours, now) ==
    LET row == [id           |-> Len(tbl) + 1,
                user_id      |-> user_id,
                moderator_id |-> moderator_id,
                reason       |-> reason,
                timestamp    |-> now,
                reset_time   |-> now + 24 * reset_hours,
                active       |-> 1]
        new == Append(tbl, row)
    IN [strikes      |-> new,
        strike_id    |-> row.id,
        strike_count |-> CountActive(new, user_id)]

\* add_strike counting with `AND active = 1 AND reset_time >= ?`
add_strike_CountingUnexpired(tbl, user_id, moderator_id, reason, reset_hours, now) ==
    LET row == [id           |-> Len(tbl) + 1,
                user_id      |-> user_id,
                moderator_id |-> moderator_id,
                reason       |-> reason,
                timestamp    |-> now,
                reset_time   |-> now + reset_hours,
                active       |-> 1]
        new == Append(tbl, row)
    IN [strikes      |-> new,
        strike_id    |-> row.id,
        strike_count |-> Cardinality({i \in DOMAIN new :
                                         /\ new[i].user_id = user_id
                                         /\ new[i].active = 1
                                         /\ new[i].reset_time >= now})]

add_strike(tbl, user_id, moderator_id, reason, reset_hours, now) ==
    LET row == [id           |-> Len(tbl) + 1,
                user_id      |-> user_id,
                moderator_id |-> moderator_id,
                reason       |-> reason,
                timestamp    |-> now,
                reset_time   |-> now + reset_hours,
                active       |-> 1]
        new == Append(tbl, row)
    IN [strikes      |-> new,
        strike_id    |-> row.id,
        strike_count |-> CountActive(new, user_id)]

\* the sweep as UPDATE strikes SET active = (reset_time >= ?), on every row
reset_expired_strikes_RecomputingFlag(tbl, now) ==
    LET hit == {i \in DOMAIN tbl : tbl[i].reset_time < now /\ tbl[i].active = 1}
    IN [strikes     |-> [i \in DOMAIN tbl |->
                            [tbl[i] EXCEPT !.active = IF tbl[i].reset_time < now
                                                      THEN 0 ELSE 1]],
        reset_count |-> Cardinality(hit)]

\* the sweep with `reset_time > ?`
reset_expired_strikes_ComparisonReversed(tbl, now) ==
    LET hit == {i \in DOMAIN tbl : tbl[i].reset_time > now /\ tbl[i].active = 1}
    IN [strikes     |-> [i \in DOMAIN tbl |->
                            IF i \in hit THEN [tbl[i] EXCEPT !.active = 0] ELSE tbl[i]],
        reset_count |-> Cardinality(hit)]

\* the sweep with `reset_time <= ?`
reset_expired_strikes_IncludingBoundary(tbl, now) ==
    LET hit == {i \in DOMAIN tbl : tbl[i].reset_time <= now /\ tbl[i].active = 1}
    IN [strikes     |-> [i \in DOMAIN tbl |->
                            IF i \in hit THEN [tbl[i] EXCEPT !.active = 0] ELSE tbl[i]],
        reset_count |-> Cardinality(hit)]

\* the sweep without `AND active = 1`: rowcount then counts every expired row
reset_expired_strikes_CountingInactive(tbl, now) ==
    LET hit == {i \in DOMAIN tbl : tbl[i].reset_time < now}
    IN [strikes     |-> [i \in DOMAIN tbl |->
                            IF i \in hit THEN [tbl[i] EXCEPT !.active = 0] ELSE tbl[i]],
        reset_count |-> Cardinality(hit)]

\* UPDATE strikes SET active = 0 WHERE reset_time < ? AND active = 1
reset_expired_strikes(tbl, now) ==
    LET hit == {i \in DOMAIN tbl : tbl[i].reset_time < now /\ tbl[i].active = 1}
    IN [strikes     |-> [i \in DOMAIN tbl |->
                            IF i \in hit THEN [tbl[i] EXCEPT !.active = 0] ELSE tbl[i]],
        reset_count |-> Cardinality(hit)]

\* INSERT OR REPLACE INTO violations ... COALESCE((SELECT violation_count ...), 0) + 1
increment_violation_count(viol, user_id) ==
    LET new == (user_id :> (get_violation_count(viol, user_id) + 1)) @@ viol
    IN [violations      |-> new,
        violation_count |-> new[user_id]]

----------------------------------------------------------------------------
\* strike_manager.py

\* check_punishment with `if strike_count > 3`
ShouldPunish_AboveThree(strike_count) == strike_count > 3

\* check_punishment with `if strike_count >= 2`
ShouldPunish_FromTwo(strike_count) == strike_count >= 2

\* check_punishment with `if strike_count == 3`
ShouldPunish_OnlyAtThree(strike_count) == strike_count = 3

\* check_punishment: `if strike_count >= 3`
ShouldPunish(strike_count) == strike_count >= 3

\* the lookup falling back to the table's first entry instead of 1440
timeout_duration_DefaultFirstEntry(violation_count) ==
    IF violation_count \in DOMAIN PUNISHMENT_ESCALATION
    THEN PUNISHMENT_ESCALATION[violation_count]
    ELSE PUNISHMENT_ESCALATION[1]

\* PUNISHMENT_ESCALATION.get(violation_count, 1440)
timeout_duration(violation_count) ==
    IF violation_count \in DOMAIN PUNISHMENT_ESCALATION
    THEN PUNISHMENT_ESCALATION[violation_count]
    ELSE DefaultTimeout

\* remove_strike with UPDATE strikes SET active = 0 WHERE user_id = ?
DeactivateById_WholeUser(tbl, id) ==
    [i \in DOMAIN tbl |->
        IF tbl[i].user_id = tbl[id].user_id THEN [tbl[i] EXCEPT !.active = 0] ELSE tbl[i]]

\* remove_strike: UPDATE strikes SET active = 0 WHERE id = ?
DeactivateById(tbl, id) ==
    [i \in DOMAIN tbl |-> IF tbl[i].id = id THEN [tbl[i] EXCEPT !.active = 0] ELSE tbl[i]]

\* reset_all_strikes with UPDATE strikes SET active = 0 WHERE active = 1
DeactivateAllActive_EveryUser(tbl, user_id) ==
    [i \in DOMAIN tbl |-> [tbl[i] EXCEPT !.active = 0]]

\* reset_all_strikes: UPDATE strikes SET active = 0 WHERE user_id = ? AND active = 1
DeactivateAllActive(tbl, user_id) ==
    [i \in DOMAIN tbl |->
        IF tbl[i].user_id = user_id /\ tbl[i].active = 1
        THEN [tbl[i] EXCEPT !.active = 0] ELSE tbl[i]]

NoCall == [op |-> "none", wrote |-> "nothing"]

\* get_violation_count has no except block: an I/O error in it propagates out of
\* check_punishment into the except block of give_strike
ReadError == [read_error |-> TRUE]

\* the defaults give_strike returns from its `except Exception`
GiveStrikeDefault(now) ==
    [strike_id |-> 0, strike_count |-> 0, violation_count |-> 0, next_reset |-> now]

\* no dashboard yet: bot_state has no row, the platform has no dashboard channel,
\* neither the periodic loop nor on_ready is running
NoDashboard ==
    [bot_state |-> <<>>, channels |-> {}, messages |-> {}, made |-> 0, sent |-> 0,
     iteration |-> 0,
     loop  |-> [pc |-> "off", channel |-> 0, message |-> 0],
     ready |-> [pc |-> "off", channel |-> 0, message |-> 0]]

\* no create_dashboard_embed call in progress and none finished
NoEmbed ==
    [pc |-> "idle", active_strikes |-> <<>>, todo |-> <<>>, violation_count |-> 0,
     fields |-> <<>>]

----------------------------------------------------------------------------
Init ==
    /\ strikes = <<>>
    /\ violations = <<>>
    /\ pending = {}
    /\ timeoutLog = [u \in Users |-> <<>>]
    /\ lastCall = NoCall
    /\ clock = 0
    /\ ioFaults = FALSE
    /\ strikeCap = MaxStrikes
    /\ dbBusy = FALSE
    /\ dash = NoDashboard
    /\ embed = NoEmbed

\* give_strike up to its return or to `await user.timeout(...)`
GiveStrike(user, moderator, reason) ==
    /\ Len(strikes) < strikeCap
    /\ \E add \in WriteOutcomes, inc \in WriteOutcomes, read \in IOOutcomes :
        IF add # "ok"
        THEN \* add_strike raised
             /\ lastCall' = [op |-> "give_strike", user |-> user, wrote |-> "nothing",
                             returned |-> TRUE,
                             store_error |-> StoreError("add_strike", add)]
                            @@ GiveStrikeDefault(clock)
             /\ UNCHANGED <<strikes, violations, pending, timeoutLog>>
        ELSE LET added == add_strike(strikes, user, moderator, reason,
                                     STRIKE_RESET_HOURS, clock)
                 punish == ShouldPunish(added.strike_count)
                 \* the fields lastCall gets when increment_violation_count fails
                 incError == IF punish /\ inc # "ok"
                             THEN [store_error |->
                                      StoreError("increment_violation_count", inc)]
                             ELSE <<>>
             IN /\ strikes' = added.strikes
                /\ IF punish /\ inc # "connect"
                   THEN LET incd == IF inc = "ok"
                                    THEN increment_violation_count(violations, user)
                                    ELSE [violations |-> violations, violation_count |-> 1]
                        IN /\ violations' = incd.violations
                           /\ timeoutLog' = [timeoutLog EXCEPT ![user] =
                                 Append(@, [strike_count    |-> added.strike_count,
                                            violation_count |-> incd.violation_count,
                                            minutes |-> timeout_duration(incd.violation_count)])]
                           /\ pending' = pending \cup
                                 {[user            |-> user,
                                   strike_id       |-> added.strike_id,
                                   strike_count    |-> added.strike_count,
                                   violation_count |-> incd.violation_count]}
                           /\ lastCall' = incError @@
                                          [op |-> "give_strike", user |-> user,
                                           wrote |-> "locked", returned |-> FALSE,
                                           strike_id |-> added.strike_id]
                   ELSE \* check_punishment returns get_violation_count(user.id), from
                        \* its last line or from its `except Exception`; an error
                        \* raised there ends in the except block of give_strike
                        /\ lastCall' = incError @@
                              [op |-> "give_strike", user |-> user, wrote |-> "locked",
                               returned |-> TRUE] @@
                              (IF read = "ok"
                               THEN [strike_id       |-> added.strike_id,
                                     strike_count    |-> added.strike_count,
                                     violation_count |-> get_violation_count(violations, user),
                                     next_reset      |-> clock + STRIKE_RESET_HOURS]
                               ELSE ReadError @@ GiveStrikeDefault(clock))
                        /\ UNCHANGED <<violations, pending, timeoutLog>>
    /\ UNCHANGED <<clock, ioFaults, strikeCap, dbBusy, dash, embed>>

\* check_punishment letting a failed user.timeout(...) propagate to give_strike
TimeoutReturns_NeutralOnFailure(call, outcome) ==
    /\ call \in pending
    /\ pending' = pending \ {call}
    /\ lastCall' =
          [op |-> "give_strike", user |-> call.user, wrote |-> "nothing",
           returned |-> TRUE] @@
          (IF outcome = "ok"
           THEN [strike_id       |-> call.strike_id,
                 strike_count    |-> call.strike_count,
                 violation_count |-> call.violation_count,
                 next_reset      |-> clock + STRIKE_RESET_HOURS]
           ELSE GiveStrikeDefault(clock))
    /\ UNCHANGED <<strikes, violations, timeoutLog, clock, ioFaults, strikeCap, dbBusy, dash, embed>>

\* give_strike resumed when user.timeout(...) returns or raises
TimeoutReturns(call, outcome) ==
    /\ call \in pending
    /\ pending' = pending \ {call}
    /\ \E read \in IOOutcomes :
          lastCall' =
             [op |-> "give_strike", user |-> call.user, wrote |-> "nothing",
              returned |-> TRUE] @@
             (IF outcome = "ok" \/ read = "ok"
              THEN [strike_id       |-> call.strike_id,
                    strike_count    |-> call.strike_count,
                    violation_count |-> IF outcome = "ok"
                                        THEN call.violation_count
                                        ELSE get_violation_count(violations, call.user),
                    next_reset      |-> clock + STRIKE_RESET_HOURS]
              ELSE ReadError @@ GiveStrikeDefault(clock))
    /\ UNCHANGED <<strikes, violations, timeoutLog, clock, ioFaults, strikeCap, dbBusy, dash, embed>>

RemoveStrike(user_id) ==
    /\ IF FirstActiveStrikes(strikes, user_id) = {}
       THEN /\ lastCall' = [op |-> "remove_strike", user |-> user_id, wrote |-> "nothing",
                            removed |-> FALSE, strike_count |-> 0,
                            violation_count |-> get_violation_count(violations, user_id)]
            /\ UNCHANGED strikes
       ELSE IF dbBusy
       THEN \* the UPDATE raised: the defaults of the except block
            /\ lastCall' = [op |-> "remove_strike", user |-> user_id, wrote |-> "nothing",
                            removed |-> FALSE, strike_count |-> 0, violation_count |-> 0,
                            store_error |-> StoreError("remove_strike", "execute")]
            /\ UNCHANGED strikes
       ELSE \E id \in FirstActiveStrikes(strikes, user_id) :
               LET new  == DeactivateById(strikes, id)
                   info == get_user_strike_info(new, violations, user_id)
               IN /\ strikes' = new
                  /\ lastCall' = [op |-> "remove_strike", user |-> user_id,
                                  wrote |-> "unlocked", removed |-> TRUE,
                                  strike_count |-> info.active_strikes,
                                  violation_count |-> info.violation_count]
    /\ UNCHANGED <<violations, pending, timeoutLog, clock, ioFaults, strikeCap, dbBusy, dash, embed>>

\* reset_all_strikes also deleting the user's violations row
ResetAllStrikes_ClearingViolations(user_id) ==
    LET strike_info == get_user_strike_info(strikes, violations, user_id)
    IN /\ strike_info.active_strikes > 0
       /\ strikes' = DeactivateAllActive(strikes, user_id)
       /\ violations' = [u \in DOMAIN violations \ {user_id} |-> violations[u]]
       /\ lastCall' = [op |-> "reset_all_strikes", user |-> user_id,
                       wrote |-> "unlocked",
                       strikes_removed |-> strike_info.active_strikes,
                       violation_count |-> strike_info.violation_count]
       /\ UNCHANGED <<pending, timeoutLog, clock, ioFaults, strikeCap, dbBusy, dash, embed>>

ResetAllStrikes(user_id) ==
    LET strike_info == get_user_strike_info(strikes, violations, user_id)
    IN /\ IF strike_info.active_strikes = 0
          THEN /\ lastCall' = [op |-> "reset_all_strikes", user |-> user_id,
                               wrote |-> "nothing", strikes_removed |-> 0,
                               violation_count |-> strike_info.violation_count]
               /\ UNCHANGED strikes
          ELSE IF dbBusy
          THEN \* the UPDATE raised: the defaults of the except block
               /\ lastCall' = [op |-> "reset_all_strikes", user |-> user_id,
                               wrote |-> "nothing", strikes_removed |-> 0,
                               violation_count |-> 0,
                               store_error |-> StoreError("reset_all_strikes", "execute")]
               /\ UNCHANGED strikes
          ELSE /\ strikes' = DeactivateAllActive(strikes, user_id)
               /\ lastCall' = [op |-> "reset_all_strikes", user |-> user_id,
                               wrote |-> "unlocked",
                               strikes_removed |-> strike_info.active_strikes,
                               violation_count |-> strike_info.violation_count]
       /\ UNCHANGED <<violations, pending, timeoutLog, clock, ioFaults, strikeCap, dbBusy, dash, embed>>

\* StrikeManager.reset_expired_strikes: the table it leaves and what it returns
ManagerSweep(io) ==
    IF io = "ok"
    THEN LET swept == reset_expired_strikes(strikes, clock)
         IN [strikes  |-> swept.strikes,
             lastCall |-> [op |-> "reset_expired_strikes",
                           wrote |-> IF swept.reset_count > 0
                                     THEN "locked" ELSE "nothing",
                           reset_count |-> swept.reset_count]]
    ELSE [strikes  |-> strikes,
          lastCall |-> [op |-> "reset_expired_strikes", wrote |-> "nothing",
                        reset_count |-> 0,
                        store_error |-> StoreError("reset_expired_strikes", io)]]

\* StrikeManager.reset_expired_strikes, called by the periodic loop
SweepExpired ==
    /\ \E io \in WriteOutcomes :
          /\ strikes' = ManagerSweep(io).strikes
          /\ lastCall' = ManagerSweep(io).lastCall
    /\ UNCHANGED <<violations, pending, timeoutLog, clock, ioFaults, strikeCap, dbBusy, dash, embed>>

\* Time passes.  Times are only ever compared with each other, so the clock is
\* left at its origin until the first strike is stored.  A step of the clock is a
\* whole reset window, while user.timeout(...) and bot.fetch_user(...) are single
\* HTTP requests that return or raise within the client timeout: no call stays
\* suspended across a step.
Tick(d) ==
    /\ clock + d <= MaxClock
    /\ strikes # <<>>
    /\ pending = {}
    /\ embed.pc \in {"idle", "done"}
    /\ clock' = clock + d
    /\ UNCHANGED <<strikes, violations, pending, timeoutLog, lastCall, ioFaults,
                   strikeCap, dbBusy, dash, embed>>

Next ==
    \/ \E u \in Users, m \in Moderators, r \in Reasons : GiveStrike(u, m, r)
    \/ \E c \in pending, o \in {"ok", "forbidden", "error"} : TimeoutReturns(c, o)
    \/ \E u \in Users : RemoveStrike(u)
    \/ \E u \in Users : ResetAllStrikes(u)
    \/ SweepExpired
    \/ \E d \in TickSteps : Tick(d)

Spec == Init /\ [][Next]_vars

\* the same engine over a store whose sqlite operations may raise
InitFaulty ==
    /\ strikes = <<>>
    /\ violations = <<>>
    /\ pending = {}
    /\ timeoutLog = [u \in Users |-> <<>>]
    /\ lastCall = NoCall
    /\ clock = 0
    /\ ioFaults = TRUE
    /\ strikeCap = MaxFaultyStrikes
    /\ dbBusy = FALSE
    /\ dash = NoDashboard
    /\ embed = NoEmbed

SpecFaulty == InitFaulty /\ [][Next]_vars

\* init_db with DROP TABLE before each CREATE TABLE
init_db_Recreating(db) == [strikes |-> <<>>, violations |-> <<>>]

\* init_db, run by StrikeDatabase.__init__ in every new process: each statement
\* is CREATE TABLE IF NOT EXISTS, which leaves a table that exists, and its rows,
\* as they are
init_db(db) == [strikes |-> db.strikes, violations |-> db.violations]

\* The process ends and a new one starts on the same database file.  The calls
\* suspended in user.timeout(...) and a summary being built die with the old
\* process; the new one holds a StrikeManager with a new StrikeDatabase and
\* nothing else.  Timeouts already requested stay in force on the platform.
Restart ==
    /\ strikes' = init_db([strikes |-> strikes, violations |-> violations]).strikes
    /\ violations' = init_db([strikes |-> strikes, violations |-> violations]).violations
    /\ pending' = {}
    /\ embed' = NoEmbed
    /\ lastCall' = [op |-> "restart", wrote |-> "nothing"]
    /\ UNCHANGED <<timeoutLog, clock, ioFaults, strikeCap, dbBusy, dash>>

NextRestart ==
    \/ Next
    \/ Restart

InitRestart ==
    /\ strikes = <<>>
    /\ violations = <<>>
    /\ pending = {}
    /\ timeoutLog = [u \in Users |-> <<>>]
    /\ lastCall = NoCall
    /\ clock = 0
    /\ ioFaults = FALSE
    /\ strikeCap = MaxLiveStrikes
    /\ dbBusy = FALSE
    /\ dash = NoDashboard
    /\ embed = NoEmbed

SpecRestart == InitRestart /\ [][NextRestart]_vars

\* Another connection to data/strikes.db (a second process, a backup, a shell)
\* takes the write lock of the database file, and gives it back.
ForeignWriterBegins ==
    /\ ~dbBusy
    /\ dbBusy' = TRUE
    /\ UNCHANGED <<strikes, violations, pending, timeoutLog, lastCall, clock, ioFaults,
                   strikeCap, dash, embed>>

ForeignWriterEnds ==
    /\ dbBusy
    /\ dbBusy' = FALSE
    /\ UNCHANGED <<strikes, violations, pending, timeoutLog, lastCall, clock, ioFaults,
                   strikeCap, dash, embed>>

NextBusy ==
    \/ Next
    \/ ForeignWriterBegins
    \/ ForeignWriterEnds

InitBusy ==
    /\ strikes = <<>>
    /\ violations = <<>>
    /\ pending = {}
    /\ timeoutLog = [u \in Users |-> <<>>]
    /\ lastCall = NoCall
    /\ clock = 0
    /\ ioFaults = FALSE
    /\ strikeCap = MaxFaultyStrikes
    /\ dbBusy = FALSE
    /\ dash = NoDashboard
    /\ embed = NoEmbed

SpecBusy == InitBusy /\ [][NextBusy]_vars

\* The engine with its periodic loop running: _update_loop calls
\* reset_expired_strikes first in every iteration, sleeps `interval` seconds after
\* the iteration whether it succeeded or raised, and leaves the loop only when the
\* bot is closed.  A sweep that has something to deactivate is therefore not
\* postponed forever.
InitLive ==
    /\ strikes = <<>>
    /\ violations = <<>>
    /\ pending = {}
    /\ timeoutLog = [u \in Users |-> <<>>]
    /\ lastCall = NoCall
    /\ clock = 0
    /\ ioFaults = FALSE
    /\ strikeCap = MaxLiveStrikes
    /\ dbBusy = FALSE
    /\ dash = NoDashboard
    /\ embed = NoEmbed

SpecLive == InitLive /\ [][Next]_vars /\ WF_vars(SweepExpired)

----------------------------------------------------------------------------
\* The store of a long-running deployment: user 1 has been given n strikes in a
\* row (escalated from the 3rd on, every timeout returned) and then had them all
\* reset.  The tables outlive the process (CREATE TABLE IF NOT EXISTS), so the
\* engine starts from such a store after a restart.
PriorStrikes(n) ==
    [i \in 1..n |-> [id |-> i, user_id |-> 1, moderator_id |-> 9, reason |-> "spam",
                     timestamp |-> 0, reset_time |-> STRIKE_RESET_HOURS, active |-> 0]]

PriorEscalations(n) == IF n >= 3 THEN n - 2 ELSE 0

InitEscalated ==
    \E n \in 0..MaxPrior :
        /\ strikes = PriorStrikes(n)
        /\ violations = IF n >= 3 THEN (1 :> PriorEscalations(n)) ELSE <<>>
        /\ pending = {}
        /\ timeoutLog = [u \in Users |->
              IF u = 1
              THEN [k \in 1..PriorEscalations(n) |->
                      [strike_count |-> k + 2, violation_count |-> k,
                       minutes |-> timeout_duration(k)]]
              ELSE <<>>]
        /\ lastCall = IF n = 0 THEN NoCall
                      ELSE [op |-> "reset_all_strikes", user |-> 1, wrote |-> "unlocked",
                            strikes_removed |-> n,
                            violation_count |-> PriorEscalations(n)]
        /\ clock = 0
        /\ ioFaults = FALSE
        /\ strikeCap = n + 3
        /\ dbBusy = FALSE
        /\ dash = NoDashboard
        /\ embed = NoEmbed

SpecEscalated == InitEscalated /\ [][Next]_vars

----------------------------------------------------------------------------
\* database.py: table bot_state.  The row 'dashboard_message' holds the text
\* f"{channel_id}:{message_id}"; a text is a sequence of characters here.

DigitChars == <<"0", "1", "2", "3", "4", "5", "6", "7", "8", "9">>

\* str(n) for n >= 0
RECURSIVE DecimalText(_)
DecimalText(n) ==
    IF n < 10 THEN <<DigitChars[n + 1]>>
    ELSE Append(DecimalText(n \div 10), DigitChars[(n % 10) + 1])

\* f"{channel_id}:{message_id}"
AnchorText(channel_id, message_id) ==
    DecimalText(channel_id) \o <<":">> \o DecimalText(message_id)

\* text.split(':'): the pieces between the colons, one more than there are colons
SplitColon(text) ==
    LET colons == {i \in DOMAIN text : text[i] = ":"}
        cut(k) == IF k = 0 THEN 0
                  ELSE IF k > Cardinality(colons) THEN Len(text) + 1
                  ELSE CHOOSE i \in colons : Cardinality({j \in colons : j < i}) = k - 1
    IN [k \in 1..(Cardinality(colons) + 1) |-> SubSeq(text, cut(k - 1) + 1, cut(k) - 1)]

IsDecimalText(text) ==
    text # <<>> /\ \A i \in DOMAIN text : \E d \in DOMAIN DigitChars : DigitChars[d] = text[i]

\* int(text) for a text of digits
RECURSIVE IntOfText(_)
IntOfText(text) ==
    IF text = <<>> THEN 0
    ELSE 10 * IntOfText(SubSeq(text, 1, Len(text) - 1))
         + ((CHOOSE d \in DOMAIN DigitChars : DigitChars[d] = text[Len(text)]) - 1)

\* Python's (None, None)
NoAnchor == <<None, None>>

\* the rows of bot_state (a sequence of [key, value]) with the key
KeyRows(tbl, key) == SelectSeq(tbl, LAMBDA row : row.key = key)

\* get_dashboard_message: the value of the first row the SELECT returns, split
\* at ':' into two integers; (None, None) when there is no row, when the split
\* does not give two parts or when a part is no integer, and (from the except
\* block) when the SELECT fails
get_dashboard_message(tbl, io) ==
    LET result == KeyRows(tbl, "dashboard_message")
    IN IF io # "ok" \/ result = <<>> THEN NoAnchor
       ELSE LET parts == SplitColon(result[1].value)
            IN IF Len(parts) = 2 /\ IsDecimalText(parts[1]) /\ IsDecimalText(parts[2])
               THEN <<IntOfText(parts[1]), IntOfText(parts[2])>>
               ELSE NoAnchor

\* save_dashboard_message with a plain INSERT into a table without primary key
save_dashboard_message_Inserting(tbl, channel_id, message_id, io) ==
    IF io = "ok"
    THEN Append(tbl, [key |-> "dashboard_message",
                      value |-> AnchorText(channel_id, message_id)])
    ELSE tbl

\* save_dashboard_message: INSERT OR REPLACE INTO bot_state (key, value) on the
\* one key 'dashboard_message': `key` is the PRIMARY KEY, so a row with that key
\* is deleted before the new one is inserted; an I/O error is logged and the
\* table stays as it was
save_dashboard_message(tbl, channel_id, message_id, io) ==
    IF io = "ok"
    THEN Append(SelectSeq(tbl, LAMBDA row : row.key # "dashboard_message"),
                [key |-> "dashboard_message",
                 value |-> AnchorText(channel_id, message_id)])
    ELSE tbl

----------------------------------------------------------------------------
\* dashboard.py and bot.py: the dashboard message, the periodic loop, on_ready.
\*
\* The platform holds the text channels named DASHBOARD_CHANNEL_NAME
\* (dash.channels) and the messages the bot has sent to them (dash.messages);
\* the k-th channel created has id k and the n-th message sent has id 10 + n.
\* The loop task and the on_ready handler are each at one position (pc): a
\* suspension point of their code, with the channel and message they hold there.

Tasks == {"loop", "ready"}

\* where a task is when its handler is not running: the loop in asyncio.sleep,
\* on_ready not invoked
Resting(t) ==
    [pc |-> IF t = "loop" THEN "sleep" ELSE "idle", channel |-> 0, message |-> 0]

\* an exception caught by an except clause of the task's code: it is logged and
\* the handler returns (the loop goes on to its sleep)
Caught_EndingTask(d, t) == [d EXCEPT ![t] = [pc |-> "dead", channel |-> 0, message |-> 0]]

Caught(d, t) == [d EXCEPT ![t] = Resting(t)]

\* the first channel of guild.text_channels with the dashboard's name
FirstChannel(d) == CHOOSE c \in d.channels : \A other \in d.channels : c <= other

\* create_new_dashboard up to its first await: the embed of a store without
\* active strikes is built without suspending
create_new_dashboard(d, t) ==
    IF d.channels # {}
    THEN [d EXCEPT ![t] = [pc |-> "send", channel |-> FirstChannel(d), message |-> 0]]
    ELSE [d EXCEPT ![t] = [pc |-> "create_channel", channel |-> 0, message |-> 0]]

\* update_dashboard up to its first await
update_dashboard(d, io) ==
    LET found == get_dashboard_message(d.bot_state, io)
    IN IF io = "connect"
       THEN \* get_connection() raised, outside the try block of the store method
            Caught(d, "loop")
       ELSE IF found[1] = None \/ found[1] = 0 \/ found[2] = None \/ found[2] = 0
       THEN create_new_dashboard(d, "loop")
       ELSE IF found[1] \notin d.channels
       THEN \* bot.get_channel returned None: logged, nothing else done
            [d EXCEPT !.loop = Resting("loop")]
       ELSE [d EXCEPT !.loop = [pc |-> "fetch_message", channel |-> found[1],
                                message |-> found[2]]]

\* how a request about message m may end on the platform
MessageOutcomes(d, m) == IF m \in d.messages THEN {"ok", "error"} ELSE {"NotFound", "error"}

EngineUnchanged == UNCHANGED <<violations, pending, timeoutLog, clock, ioFaults, strikeCap, dbBusy, embed>>

\* one iteration of _update_loop, from the end of its sleep to the first await
\* of update_dashboard; dash.iteration is the parity of the iterations begun
LoopIteration ==
    /\ dash.loop.pc = "sleep"
    /\ \E sweep \in WriteOutcomes, read \in IOOutcomes :
          /\ strikes' = ManagerSweep(sweep).strikes
          /\ lastCall' = ManagerSweep(sweep).lastCall
          /\ dash' = [update_dashboard(dash, read) EXCEPT !.iteration = 1 - @]
    /\ EngineUnchanged

\* update_dashboard resumed when channel.fetch_message returns or raises
FetchMessageReturns ==
    /\ dash.loop.pc = "fetch_message"
    /\ \E outcome \in MessageOutcomes(dash, [channel |-> dash.loop.channel,
                                              id |-> dash.loop.message]) :
          dash' = CASE outcome = "ok" -> [dash EXCEPT !.loop.pc = "edit"]
                    [] outcome = "NotFound" -> create_new_dashboard(dash, "loop")
                    [] OTHER -> Caught(dash, "loop")
    /\ UNCHANGED <<strikes, lastCall>>
    /\ EngineUnchanged

\* update_dashboard resumed when message.edit returns or raises
EditReturns ==
    /\ dash.loop.pc = "edit"
    /\ \E outcome \in MessageOutcomes(dash, [channel |-> dash.loop.channel,
                                              id |-> dash.loop.message]) :
          dash' = CASE outcome = "ok" -> [dash EXCEPT !.loop = Resting("loop")]
                    [] outcome = "NotFound" -> create_new_dashboard(dash, "loop")
                    [] OTHER -> Caught(dash, "loop")
    /\ UNCHANGED <<strikes, lastCall>>
    /\ EngineUnchanged

\* create_new_dashboard resumed when guild.create_text_channel returns or raises
CreateChannelReturns(t) ==
    /\ dash[t].pc = "create_channel"
    /\ \/ /\ dash.made < MaxChannels
          /\ LET c == dash.made + 1
             IN dash' = [dash EXCEPT !.channels = @ \cup {c}, !.made = c,
                                     ![t] = [pc |-> "send", channel |-> c, message |-> 0]]
       \/ dash' = Caught(dash, t)
    /\ UNCHANGED <<strikes, lastCall>>
    /\ EngineUnchanged

\* create_new_dashboard resumed when dashboard_channel.send returns or raises;
\* after a message was sent its id is saved
SendReturns(t) ==
    /\ dash[t].pc = "send"
    /\ \/ /\ dash[t].channel \in dash.channels
          /\ dash.sent < MaxMessages
          /\ \E save \in WriteOutcomes :
                LET m == 10 + dash.sent + 1
                IN dash' = [dash EXCEPT
                              !.messages = @ \cup {[channel |-> dash[t].channel, id |-> m]},
                              !.sent = @ + 1,
                              !.bot_state = save_dashboard_message(@, dash[t].channel, m, save),
                              ![t] = Resting(t)]
       \/ dash' = Caught(dash, t)
    /\ UNCHANGED <<strikes, lastCall>>
    /\ EngineUnchanged

\* on_ready: `await self.dashboard.create_new_dashboard()`
OnReady ==
    /\ dash.ready.pc = "idle"
    /\ dash' = create_new_dashboard(dash, "ready")
    /\ UNCHANGED <<strikes, lastCall>>
    /\ EngineUnchanged

\* someone deletes the dashboard message
DeleteMessage(m) ==
    /\ m \in dash.messages
    /\ dash' = [dash EXCEPT !.messages = @ \ {m}]
    /\ UNCHANGED <<strikes, lastCall>>
    /\ EngineUnchanged

\* someone deletes the dashboard channel, and its messages with it
DeleteChannel(c) ==
    /\ c \in dash.channels
    /\ dash' = [dash EXCEPT !.channels = @ \ {c},
                            !.messages = {m \in @ : m.channel # c}]
    /\ UNCHANGED <<strikes, lastCall>>
    /\ EngineUnchanged

NextDashboard ==
    \/ LoopIteration
    \/ FetchMessageReturns
    \/ EditReturns
    \/ \E t \in Tasks : CreateChannelReturns(t)
    \/ \E t \in Tasks : SendReturns(t)
    \/ OnReady
    \/ \E m \in dash.messages : DeleteMessage(m)
    \/ \E c \in dash.channels : DeleteChannel(c)

\* the bot started on a store without strikes: setup_hook has started the loop
InitDashboard ==
    /\ strikes = <<>>
    /\ violations = <<>>
    /\ pending = {}
    /\ timeoutLog = [u \in Users |-> <<>>]
    /\ lastCall = NoCall
    /\ clock = 0
    /\ ioFaults = FALSE
    /\ strikeCap = 0
    /\ dbBusy = FALSE
    /\ dash = [NoDashboard EXCEPT !.loop = Resting("loop"), !.ready = Resting("ready")]
    /\ embed = NoEmbed

SpecDashboard == InitDashboard /\ [][NextDashboard]_vars

\* the same with store failures; the event loop resumes the loop task when its
\* sleep ends, and a request to the platform returns or raises
InitLoop ==
    /\ strikes = <<>>
    /\ violations = <<>>
    /\ pending = {}
    /\ timeoutLog = [u \in Users |-> <<>>]
    /\ lastCall = NoCall
    /\ clock = 0
    /\ ioFaults = TRUE
    /\ strikeCap = 0
    /\ dbBusy = FALSE
    /\ dash = [NoDashboard EXCEPT !.loop = Resting("loop"), !.ready = Resting("ready")]
    /\ embed = NoEmbed

\* the steps of the loop task; its position enables exactly one of them
LoopTask ==
    \/ LoopIteration
    \/ FetchMessageReturns
    \/ EditReturns
    \/ CreateChannelReturns("loop")
    \/ SendReturns("loop")

NextLoop ==
    \/ LoopTask
    \/ \E m \in dash.messages : DeleteMessage(m)
    \/ \E c \in dash.channels : DeleteChannel(c)

SpecLoop == InitLoop /\ [][NextLoop]_vars /\ WF_vars(LoopTask)

----------------------------------------------------------------------------
\* dashboard.py: create_dashboard_embed, the summary of the active strikes.
\*
\* embed is the call in progress: the rows it read (active_strikes), the users
\* still to be shown (todo), the violation count read for the user being shown,
\* and the fields added so far.  The call suspends twice per user, in
\* bot.fetch_user for the user and for the moderator; whether a fetch returns or
\* raises only changes the display name.

\* get_all_active_strikes: the active strikes, each with its user's violation
\* count, ORDER BY user_id, timestamp DESC.  The sequences the query may return:
\* SQL leaves the order of a user's strikes of equal timestamp open.
OrderedBefore(a, b) ==
    \/ a.user_id < b.user_id
    \/ a.user_id = b.user_id /\ a.timestamp > b.timestamp

\* the sequences of the rows in which no row comes after one it is ordered before
RECURSIVE SortedBy(_)
SortedBy(rows) ==
    IF rows = {} THEN {<<>>}
    ELSE UNION {{<<first>> \o rest : rest \in SortedBy(rows \ {first})} :
                first \in {r \in rows : \A other \in rows : ~OrderedBefore(other, r)}}

get_all_active_strikes(tbl, viol) ==
    SortedBy({tbl[i] @@ [violation_count |-> get_violation_count(viol, tbl[i].user_id)] :
                 i \in {j \in DOMAIN tbl : tbl[j].active = 1}})

\* the keys of user_strikes in insertion order: the users in the order in which
\* they first appear in the rows
RECURSIVE user_strikes_keys(_)
user_strikes_keys(rows) ==
    IF rows = <<>> THEN <<>>
    ELSE IF \E k \in 1..(Len(rows) - 1) : rows[k].user_id = rows[Len(rows)].user_id
    THEN user_strikes_keys(SubSeq(rows, 1, Len(rows) - 1))
    ELSE Append(user_strikes_keys(SubSeq(rows, 1, Len(rows) - 1)), rows[Len(rows)].user_id)

\* user_strikes[user_id]
user_strikes(rows, user_id) == SelectSeq(rows, LAMBDA row : row.user_id = user_id)

\* format_time_remaining at a clock that counts hours
format_time_remaining(reset_time, now) ==
    IF reset_time <= now
    THEN [text |-> "Resetting soon...", days |-> 0, hours |-> 0, minutes |-> 0]
    ELSE LET delta == reset_time - now
         IN IF delta \div 24 > 0
            THEN [text |-> "{days}d {hours}h", days |-> delta \div 24,
                  hours |-> delta % 24, minutes |-> 0]
            ELSE [text |-> "{hours}h {minutes}m", days |-> 0, hours |-> delta, minutes |-> 0]

\* the reason cut at 47 characters whenever it is longer than 47
Truncated_Above47(reason) ==
    IF Len(reason) > 47 THEN SubSeq(reason, 1, 47) \o "..." ELSE reason

\* `if len(reason) > 50: reason = reason[:47] + "..."`
Truncated(reason) ==
    IF Len(reason) > 50 THEN SubSeq(reason, 1, 47) \o "..." ELSE reason

\* min(reset_times)
RECURSIVE MinOf(_)
MinOf(rows) ==
    IF Len(rows) = 1 THEN rows[1].reset_time
    ELSE IF rows[1].reset_time <= MinOf(Tail(rows)) THEN rows[1].reset_time
    ELSE MinOf(Tail(rows))

\* the field showing the strike that was issued first instead of strikes[0]
Field_OldestStrike(rows, violation_count, now) ==
    [user_id         |-> rows[1].user_id,
     strike_count    |-> Len(rows),
     violation_count |-> violation_count,
     moderator_id    |-> rows[Len(rows)].moderator_id,
     reason          |-> Truncated(rows[Len(rows)].reason),
     next_reset      |-> MinOf(rows),
     reset_text      |-> format_time_remaining(MinOf(rows), now)]

\* the field added for one user, from the user's rows (latest_strike is the
\* first) and the violation count read for the user
Field(rows, violation_count, now) ==
    [user_id         |-> rows[1].user_id,
     strike_count    |-> Len(rows),
     violation_count |-> violation_count,
     moderator_id    |-> rows[1].moderator_id,
     reason          |-> Truncated(rows[1].reason),
     next_reset      |-> MinOf(rows),
     reset_text      |-> format_time_remaining(MinOf(rows), now)]

BuilderUnchanged ==
    UNCHANGED <<strikes, violations, pending, timeoutLog, lastCall, clock, ioFaults,
                strikeCap, dbBusy, dash>>

\* create_dashboard_embed up to its return ("No Active Strikes") or to the
\* first `await self.bot.fetch_user(user_id)`
BuildStarts ==
    /\ embed.pc \in {"idle", "done"}
    /\ \E rows \in get_all_active_strikes(strikes, violations) :
          embed' = [pc              |-> IF rows = <<>> THEN "done" ELSE "fetch_user",
                    active_strikes  |-> rows,
                    todo            |-> user_strikes_keys(rows),
                    violation_count |-> 0,
                    fields          |-> <<>>]
    /\ BuilderUnchanged

\* resumed after fetch_user(user_id): the violation count is read from the
\* store, then `await self.bot.fetch_user(latest_strike[2])`
FetchUserReturns ==
    /\ embed.pc = "fetch_user"
    /\ embed' = [embed EXCEPT
                   !.pc = "fetch_moderator",
                   !.violation_count = get_violation_count(violations, Head(embed.todo))]
    /\ BuilderUnchanged

\* resumed after fetch_user(moderator): the user's field is added, and the
\* loop goes on to the next user or the embed is returned
FetchModeratorReturns ==
    /\ embed.pc = "fetch_moderator"
    /\ embed' = [embed EXCEPT
                   !.pc = IF Len(embed.todo) = 1 THEN "done" ELSE "fetch_user",
                   !.todo = Tail(@),
                   !.fields = Append(@, Field(user_strikes(embed.active_strikes,
                                                           Head(embed.todo)),
                                              embed.violation_count, clock))]
    /\ BuilderUnchanged

NextSummary ==
    \/ Next
    \/ BuildStarts
    \/ FetchUserReturns
    \/ FetchModeratorReturns

\* A store in use: user 1 holds a strike issued at hour 0 by one moderator, and
\* a second one just issued, at hour 72, by another moderator for another reason.
SummaryStore ==
    <<[id |-> 1, user_id |-> 1, moderator_id |-> 9, reason |-> "spam",
       timestamp |-> 0, reset_time |-> STRIKE_RESET_HOURS, active |-> 1],
      [id |-> 2, user_id |-> 1, moderator_id |-> 8, reason |-> "flooding the channel",
       timestamp |-> STRIKE_RESET_HOURS, reset_time |-> 2 * STRIKE_RESET_HOURS,
       active |-> 1]>>

InitSummary ==
    /\ strikes = SummaryStore
    /\ violations = <<>>
    /\ pending = {}
    /\ timeoutLog = [u \in Users |-> <<>>]
    /\ lastCall = NoCall
    /\ clock = STRIKE_RESET_HOURS
    /\ ioFaults = FALSE
    /\ strikeCap = MaxSummaryStrikes
    /\ dbBusy = FALSE
    /\ dash = NoDashboard
    /\ embed = NoEmbed

SpecSummary == InitSummary /\ [][NextSummary]_vars

\* The summary of a store holding one active strike, for every length of its
\* reason from 0 to MaxReasonLen.
Letters == "abcdefghijklmnopqrstuvwxyz"

RECURSIVE ReasonText(_)
ReasonText(n) ==
    IF n = 0 THEN ""
    ELSE ReasonText(n - 1) \o SubSeq(Letters, ((n - 1) % 26) + 1, ((n - 1) % 26) + 1)

InitReason ==
    /\ \E n \in 0..MaxReasonLen :
          strikes = <<[id |-> 1, user_id |-> 1, moderator_id |-> 9,
                       reason |-> ReasonText(n), timestamp |-> 0,
                       reset_time |-> STRIKE_RESET_HOURS, active |-> 1]>>
    /\ violations = <<>>
    /\ pending = {}
    /\ timeoutLog = [u \in Users |-> <<>>]
    /\ lastCall = NoCall
    /\ clock = 0
    /\ ioFaults = FALSE
    /\ strikeCap = 1
    /\ dbBusy = FALSE
    /\ dash = NoDashboard
    /\ embed = NoEmbed

NextReason ==
    \/ BuildStarts
    \/ FetchUserReturns
    \/ FetchModeratorReturns

SpecReason == InitReason /\ [][NextReason]_vars

----------------------------------------------------------------------------
\* Vocabulary of the properties

\* the ids of the rows of tbl that are active strikes of user u
ActiveIdsIn(tbl, u) == {i \in DOMAIN tbl : tbl[i].user_id = u /\ tbl[i].active = 1}

RowsOf(u) == {i \in DOMAIN strikes : strikes[i].user_id = u}

\* every strike ever issued to u is still active: no removal, reset or sweep has
\* touched u since u's first strike
Untouched(u) == \A i \in RowsOf(u) : strikes[i].active = 1

\* this step inserted a strike for u
IssuedTo(u) ==
    /\ Len(strikes') = Len(strikes) + 1
    /\ strikes'[Len(strikes')].user_id = u

----------------------------------------------------------------------------
\* C1: in every reachable state and for every user, the active count that
\* get_user_strike_info reports is the number of that user's strikes whose active
\* flag is set; remove_strike, which returns the count it reads back through
\* get_user_strike_info, returns that number too.
C1_ActiveCountIsNumberOfActiveStrikes ==
    /\ \A u \in Users :
          get_user_strike_info(strikes, violations, u).active_strikes
             = Cardinality(ActiveIdsIn(strikes, u))
    /\ (lastCall.op = "remove_strike" /\ lastCall.removed)
          => lastCall.strike_count = Cardinality(ActiveIdsIn(strikes, lastCall.user))

\* a removal has just reported 1 remaining active strike for a user who also has
\* two inactive ones, while another user holds an active strike
C1_Witness ==
    /\ lastCall.op = "remove_strike" /\ lastCall.removed
    /\ lastCall.strike_count = 1
    /\ Cardinality(RowsOf(lastCall.user)) = 3
    /\ \E v \in Users \ {lastCall.user} : ActiveIdsIn(strikes, v) # {}

----------------------------------------------------------------------------
\* C2: a give_strike whose add_strike succeeds raises the user's number of
\* active strikes by exactly 1, hands that resulting number on as its
\* strike_count (in the result, or in the suspended call that returns it later),
\* and changes no other user's number of active strikes.
C2_IssueStep ==
    /\ \A u \in Users : IssuedTo(u) =>
          LET k == Len(strikes')
              n == Cardinality(ActiveIdsIn(strikes', u))
          IN /\ n = Cardinality(ActiveIdsIn(strikes, u)) + 1
             /\ k \in ActiveIdsIn(strikes', u)
             /\ \A v \in Users \ {u} : ActiveIdsIn(strikes', v) = ActiveIdsIn(strikes, v)
             /\ lastCall'.op = "give_strike" /\ lastCall'.strike_id = k
             /\ IF lastCall'.returned
                THEN lastCall'.strike_count = n
                ELSE \E c \in pending' \ pending :
                        c.strike_id = k /\ c.user = u /\ c.strike_count = n
    /\ \A c \in pending \ pending' :
          /\ lastCall'.op = "give_strike" /\ lastCall'.returned
          /\ lastCall'.strike_id = c.strike_id
          /\ lastCall'.strike_count = c.strike_count

C2_IssueAddsExactlyOne == [][C2_IssueStep]_vars

\* a give_strike has just returned strike_count 2 for a user while the other user
\* holds active strikes
C2_Witness ==
    /\ lastCall.op = "give_strike" /\ lastCall.returned
    /\ lastCall.strike_count = 2
    /\ lastCall.strike_id = Len(strikes)
    /\ \E v \in Users \ {lastCall.user} : Cardinality(ActiveIdsIn(strikes, v)) = 2

----------------------------------------------------------------------------
\* C3: in every step, a user's stored violation_count goes up by exactly 1 when
\* the step is a give_strike that inserted a strike for that user and left the
\* user with 3 or more active strikes, and is unchanged in every other step
\* (an issue below 3, a removal, a reset, a sweep, a timeout returning).
C3_ViolationStep ==
    \A u \in Users :
        get_violation_count(violations', u) =
            get_violation_count(violations, u)
            + (IF IssuedTo(u) /\ Cardinality(ActiveIdsIn(strikes', u)) >= 3
               THEN 1 ELSE 0)

C3_ViolationCountsEscalations == [][C3_ViolationStep]_vars

\* a user has been escalated twice (3rd and 4th strike) and then had a strike removed
C3_Witness ==
    /\ lastCall.op = "remove_strike" /\ lastCall.removed
    /\ get_violation_count(violations, lastCall.user) = 2
    /\ lastCall.violation_count = 2

----------------------------------------------------------------------------
\* C4: no step lowers any user's violation_count or deletes a violations row;
\* so the count after remove_strike or reset_all_strikes is not below the count
\* before it.
C4_ViolationStep ==
    \A u \in Users :
        /\ get_violation_count(violations', u) >= get_violation_count(violations, u)
        /\ u \in DOMAIN violations => u \in DOMAIN violations'

C4_ViolationCountNeverDecreases == [][C4_ViolationStep]_vars

\* reset_all_strikes has just removed the 3 strikes of a user with one violation
C4_Witness ==
    /\ lastCall.op = "reset_all_strikes"
    /\ lastCall.strikes_removed = 3
    /\ get_violation_count(violations, lastCall.user) = 1
    /\ ActiveIdsIn(strikes, lastCall.user) = {}

----------------------------------------------------------------------------
\* C5: a timed suspension is requested in exactly the steps in which a
\* give_strike leaves its user with 3 or more active strikes, for the table's
\* duration of the violation count that step stored; no other step (removal,
\* reset, sweep, an issue below 3) requests one.  For a user whose strikes were
\* all issued from an empty record and never deactivated, strikes 1 and 2
\* request nothing, the 3rd requests 5 minutes and the 4th 10 minutes.
C5_TimeoutStep ==
    \A u \in Users :
        IF IssuedTo(u) /\ Cardinality(ActiveIdsIn(strikes', u)) >= 3
        THEN LET v == get_violation_count(violations', u)
             IN timeoutLog'[u] = Append(timeoutLog[u],
                   [strike_count    |-> Cardinality(ActiveIdsIn(strikes', u)),
                    violation_count |-> v,
                    minutes |-> IF v \in DOMAIN PUNISHMENT_ESCALATION
                                THEN PUNISHMENT_ESCALATION[v] ELSE DefaultTimeout])
        ELSE timeoutLog'[u] = timeoutLog[u]

C5_Scenario ==
    \A u \in Users : Untouched(u) =>
        LET n == Cardinality(RowsOf(u))
        IN /\ Len(timeoutLog[u]) = IF n >= 3 THEN n - 2 ELSE 0
           /\ n >= 3 => timeoutLog[u][1].minutes = 5
           /\ n >= 4 => timeoutLog[u][2].minutes = 10

C5_TimeoutIffThreeOrMore == [][C5_TimeoutStep]_vars /\ []C5_Scenario

\* a user's 4th consecutive strike has requested 10 minutes after the 3rd
\* requested 5
C5_Witness ==
    \E u \in Users :
        /\ Untouched(u) /\ Cardinality(RowsOf(u)) = 4
        /\ Len(timeoutLog[u]) = 2
        /\ timeoutLog[u][2].minutes = 10

----------------------------------------------------------------------------
\* C6: every suspension requested for violation count v lasts 5, 10, 60, 120,
\* 180, 1440 minutes for v = 1..6 and 1440 minutes for every v >= 7.
C6_Expected(v) ==
    CASE v = 1 -> 5
      [] v = 2 -> 10
      [] v = 3 -> 60
      [] v = 4 -> 120
      [] v = 5 -> 180
      [] v = 6 -> 1440
      [] v >= 7 -> 1440

C6_EscalationTable ==
    \A u \in Users : \A k \in DOMAIN timeoutLog[u] :
        /\ timeoutLog[u][k].violation_count >= 1
        /\ timeoutLog[u][k].minutes = C6_Expected(timeoutLog[u][k].violation_count)

\* a suspension has been requested for a violation count past the table's last
\* key by a call that is still suspended
C6_Witness ==
    \E c \in pending :
        /\ c.violation_count >= 7
        /\ timeoutLog[c.user][Len(timeoutLog[c.user])].violation_count = c.violation_count
        /\ timeoutLog[c.user][Len(timeoutLog[c.user])].minutes = 1440

----------------------------------------------------------------------------
\* C7: give_strike calls for one user that are in flight together, with none of
\* the user's strikes deactivated meanwhile, carry pairwise distinct
\* strike_counts that increase in the order their strikes were inserted.
GiveStrikeCalls(u) ==
    {[strike_id |-> c.strike_id, strike_count |-> c.strike_count] :
        c \in {d \in pending : d.user = u}}
    \cup (IF lastCall.op = "give_strike" /\ lastCall.user = u /\ lastCall.returned
          THEN {[strike_id |-> lastCall.strike_id, strike_count |-> lastCall.strike_count]}
          ELSE {})

C7_ConcurrentCountsDistinct ==
    \A u \in Users : Untouched(u) =>
        \A a, b \in GiveStrikeCalls(u) :
            a.strike_id < b.strike_id => a.strike_count < b.strike_count

\* two give_strike calls for one user are suspended at the same time
C7_Witness ==
    \E a, b \in pending :
        /\ a.user = b.user /\ a.strike_id < b.strike_id
        /\ Untouched(a.user)

----------------------------------------------------------------------------
\* C8: every durable write is made while holding the store's _db_lock.
C8_EveryWriteHoldsTheLock == lastCall.wrote # "unlocked"

----------------------------------------------------------------------------
\* C9: in every step each stored strike keeps its id, user, moderator, reason,
\* timestamp and reset_time, and its active flag either stays as it is or goes
\* from 1 to 0; rows are never deleted.
C9_StrikeStep ==
    /\ Len(strikes') >= Len(strikes)
    /\ \A i \in DOMAIN strikes :
          /\ strikes'[i] = [strikes[i] EXCEPT !.active = strikes'[i].active]
          /\ strikes'[i].active \in {0, 1}
          /\ strikes[i].active = 0 => strikes'[i].active = 0

C9_ActiveOnlyFalls == [][C9_StrikeStep]_vars

\* a sweep has just run over a strike that was removed by hand before its
\* reset_time, and another strike has expired
C9_Witness ==
    /\ lastCall.op = "reset_expired_strikes" /\ lastCall.reset_count > 0
    /\ \E i \in DOMAIN strikes : strikes[i].active = 0 /\ strikes[i].reset_time >= clock

----------------------------------------------------------------------------
\* C10: every stored strike has reset_time = timestamp + STRIKE_RESET_HOURS, and
\* no step changes the reset_time of a strike already stored.
C10_ResetTimeFixed ==
    \A i \in DOMAIN strikes : strikes[i].reset_time = strikes[i].timestamp + STRIKE_RESET_HOURS

C10_ResetTimeStep ==
    \A i \in DOMAIN strikes : strikes'[i].reset_time = strikes[i].reset_time

C10_ExpiryIsIssuePlusWindow == []C10_ResetTimeFixed /\ [][C10_ResetTimeStep]_vars

\* a strike issued later than the first has its own reset_time, after a reset and
\* a sweep have deactivated earlier strikes
C10_Witness ==
    /\ \E i \in DOMAIN strikes :
          strikes[i].timestamp = 72 /\ strikes[i].reset_time = 144 /\ strikes[i].active = 1
    /\ \E j \in DOMAIN strikes : strikes[j].timestamp = 0 /\ strikes[j].active = 0
    /\ clock = 144

----------------------------------------------------------------------------
\* a step of the sweep: only the sweep leaves "reset_expired_strikes" in lastCall
\* without moving the clock
SweepStep == lastCall'.op = "reset_expired_strikes" /\ clock' = clock

\* the active strikes whose reset_time is strictly earlier than now
DueAt(tbl, now) == {i \in DOMAIN tbl : tbl[i].active = 1 /\ tbl[i].reset_time < now}

\* C11: a sweep run at `now` deactivates exactly the strikes that are active with
\* reset_time strictly earlier than now, returns how many those are, and leaves
\* every other row (an active strike with reset_time >= now included) and every
\* other column as it was.
C11_SweepStep ==
    SweepStep =>
        /\ DOMAIN strikes' = DOMAIN strikes
        /\ \A i \in DOMAIN strikes :
              strikes'[i] = IF i \in DueAt(strikes, clock)
                            THEN [strikes[i] EXCEPT !.active = 0]
                            ELSE strikes[i]
        /\ lastCall'.reset_count = Cardinality(DueAt(strikes, clock))

C11_SweepDeactivatesExactlyTheExpired == [][C11_SweepStep]_vars

\* a sweep has deactivated an expired strike and left active one whose reset_time
\* is the time of the sweep
C11_Witness ==
    /\ lastCall.op = "reset_expired_strikes" /\ lastCall.reset_count = 1
    /\ \E i \in DOMAIN strikes : strikes[i].active = 1 /\ strikes[i].reset_time = clock
    /\ \E j \in DOMAIN strikes : strikes[j].active = 0 /\ strikes[j].reset_time < clock

----------------------------------------------------------------------------
\* a sweep of tbl at now finds nothing to do
SweepIsNoOp(tbl, now) ==
    LET again == reset_expired_strikes(tbl, now)
    IN again.reset_count = 0 /\ again.strikes = tbl

\* C12: a second sweep with the same `now`, nothing having happened since the
\* first, returns 0 and leaves the store as the first left it: this holds of the
\* store every sweep step leaves behind, and of the sweep applied to any
\* reachable store.
C12_SweepStep == SweepStep => SweepIsNoOp(strikes', clock')

C12_AnyStore == SweepIsNoOp(reset_expired_strikes(strikes, clock).strikes, clock)

C12_SweepIsIdempotent == []C12_AnyStore /\ [][C12_SweepStep]_vars

\* a sweep has just deactivated two expired strikes while a later one stays active
C12_Witness ==
    /\ lastCall.op = "reset_expired_strikes" /\ lastCall.reset_count = 2
    /\ DueAt(strikes, clock) = {}
    /\ \E i \in DOMAIN strikes : strikes[i].active = 1

----------------------------------------------------------------------------
\* a step of reset_all_strikes: only that call leaves its name in lastCall
\* without moving the clock
ResetAllStep == lastCall'.op = "reset_all_strikes" /\ clock' = clock

\* C13: reset_all_strikes(u) on a user with k active strikes deactivates all k,
\* returns strikes_removed = k and the violation count u had before the call,
\* leaves u with no active strike, and changes no strike of another user, no
\* other column of u's strikes and no violation count.
C13_ResetAllStep ==
    ResetAllStep =>
        LET u == lastCall'.user
            k == Cardinality(ActiveIdsIn(strikes, u))
        IN /\ lastCall'.strikes_removed = k
           /\ lastCall'.violation_count = get_violation_count(violations, u)
           /\ ActiveIdsIn(strikes', u) = {}
           /\ DOMAIN strikes' = DOMAIN strikes
           /\ \A i \in DOMAIN strikes :
                 strikes'[i] = IF i \in ActiveIdsIn(strikes, u)
                               THEN [strikes[i] EXCEPT !.active = 0]
                               ELSE strikes[i]
           /\ violations' = violations

C13_ResetAllClearsOneUser == [][C13_ResetAllStep]_vars

\* reset_all_strikes has removed the two active strikes of a user with earlier
\* violations while the other user keeps an active strike
C13_Witness ==
    /\ lastCall.op = "reset_all_strikes"
    /\ lastCall.strikes_removed = 2 /\ lastCall.violation_count >= 1
    /\ get_violation_count(violations, lastCall.user) = lastCall.violation_count
    /\ ActiveIdsIn(strikes, lastCall.user) = {}
    /\ \E v \in Users \ {lastCall.user} : ActiveIdsIn(strikes, v) # {}

----------------------------------------------------------------------------
\* a step of remove_strike: only that call leaves its name in lastCall without
\* moving the clock
RemoveStep == lastCall'.op = "remove_strike" /\ clock' = clock

\* C14: remove_strike(u) on a user with k >= 1 active strikes deactivates exactly
\* one of them, changes nothing else in the table and returns removed = true with
\* strike_count = k - 1; on a user with no active strike it returns
\* removed = false and changes nothing.  Neither case changes a violation count.
C14_RemoveStep ==
    RemoveStep =>
        LET u   == lastCall'.user
            act == ActiveIdsIn(strikes, u)
            k   == Cardinality(act)
        IN /\ violations' = violations
           /\ DOMAIN strikes' = DOMAIN strikes
           /\ IF k = 0
              THEN lastCall'.removed = FALSE /\ strikes' = strikes
              ELSE /\ lastCall'.removed = TRUE
                   /\ lastCall'.strike_count = k - 1
                   /\ \E id \in act :
                         \A i \in DOMAIN strikes :
                            strikes'[i] = IF i = id
                                          THEN [strikes[i] EXCEPT !.active = 0]
                                          ELSE strikes[i]

C14_RemoveTakesExactlyOne == [][C14_RemoveStep]_vars

\* remove_strike has taken one of the three strikes of an escalated user, whose
\* violation count stays 1
C14_Witness ==
    /\ lastCall.op = "remove_strike" /\ lastCall.removed
    /\ lastCall.strike_count = 2 /\ lastCall.violation_count = 1
    /\ Cardinality(ActiveIdsIn(strikes, lastCall.user)) = 2
    /\ get_violation_count(violations, lastCall.user) = 1

----------------------------------------------------------------------------
\* C15: the strike remove_strike(u) deactivates is the most recently issued
\* active strike of u, and among active strikes of u with the same timestamp it is
\* the one with the highest id.
C15_RemoveStep ==
    RemoveStep =>
        LET act == ActiveIdsIn(strikes, lastCall'.user)
        IN \A id \in act :
              strikes'[id].active = 0 =>
                 \A j \in act :
                    \/ strikes[j].timestamp < strikes[id].timestamp
                    \/ strikes[j].timestamp = strikes[id].timestamp /\ j <= id

C15_RemovesNewestHighestId == [][C15_RemoveStep]_vars

----------------------------------------------------------------------------
\* C16: when add_strike, reset_expired_strikes or increment_violation_count hits
\* an I/O error, the table it writes is left as it was before the call and the
\* method raises to its caller instead of returning a value.
C16_FaultStep ==
    (clock' = clock /\ "store_error" \in DOMAIN lastCall') =>
        LET e == lastCall'.store_error
        IN /\ e.raised
           /\ e.method \in {"add_strike", "reset_expired_strikes"} => strikes' = strikes
           /\ e.method = "increment_violation_count" => violations' = violations

C16_StoreErrorsAreRaised == [][C16_FaultStep]_vars

----------------------------------------------------------------------------
\* a step in which a give_strike call returns to its caller
GiveReturnStep == lastCall'.op = "give_strike" /\ lastCall'.returned /\ clock' = clock

\* the result is the neutral one
IsNeutral(result) ==
    result.strike_id = 0 /\ result.strike_count = 0 /\ result.violation_count = 0

\* the store method named failed in this step
Failed(method) ==
    "store_error" \in DOMAIN lastCall' /\ lastCall'.store_error.method = method

\* C17 as stated: whenever add_strike or the escalation step fails, give_strike
\* returns the neutral result.
C17_NeutralStep ==
    (GiveReturnStep /\ (Failed("add_strike") \/ Failed("increment_violation_count")))
        => IsNeutral(lastCall')

C17_ReturnStep ==
    GiveReturnStep =>
        /\ {"strike_id", "strike_count", "violation_count", "next_reset"}
              \subseteq DOMAIN lastCall'
        /\ IF Failed("add_strike")
           THEN /\ IsNeutral(lastCall')
                /\ UNCHANGED <<strikes, violations, pending, timeoutLog>>
           ELSE IF "read_error" \in DOMAIN lastCall'
           THEN IsNeutral(lastCall')
           ELSE /\ lastCall'.strike_count >= 1
                /\ \/ /\ pending' = pending
                      /\ Len(strikes') = Len(strikes) + 1
                      /\ lastCall'.strike_id = Len(strikes')
                   \/ \E call \in pending \ pending' :
                         /\ lastCall'.strike_id = call.strike_id
                         /\ lastCall'.strike_count = call.strike_count

----------------------------------------------------------------------------
\* C18: whether user.timeout(...) succeeds, is refused or fails otherwise, the
\* give_strike call that resumes leaves the violations table as it is (its
\* increment is not rolled back) and returns the violation count its own
\* increment produced.
C18_ResumeStep ==
    \A call \in pending \ pending' :
        /\ violations' = violations
        /\ get_violation_count(violations', call.user) >= call.violation_count
        /\ lastCall'.violation_count = call.violation_count

C18_RefusalReturnsOwnIncrement == [][C18_ResumeStep]_vars

----------------------------------------------------------------------------
\* C19: when several escalating give_strike calls for one user overlap, no
\* increment is lost (the stored violation count is the number of escalating
\* calls made) and no two of them return the same violation count: the count a
\* call has returned differs from the count each call still suspended got from
\* its own increment.
C19_NoLostNoDuplicateCount ==
    /\ \A u \in Users : get_violation_count(violations, u) = Len(timeoutLog[u])
    /\ (lastCall.op = "give_strike" /\ lastCall.returned /\ lastCall.strike_count >= 3)
          => \A call \in pending :
                call.user = lastCall.user =>
                    call.violation_count # lastCall.violation_count

----------------------------------------------------------------------------
\* C20: with the periodic loop running, every strike that is active after the
\* clock has passed its reset_time is eventually deactivated; no moderator action
\* is needed for it (the only step assumed to happen is the sweep).
C20_ExpiredEventuallySwept ==
    \A i \in 1..MaxLiveStrikes :
        (i \in DOMAIN strikes /\ strikes[i].active = 1 /\ strikes[i].reset_time < clock)
           ~> (i \in DOMAIN strikes /\ strikes[i].active = 0)

\* the sweep has deactivated every strike issued, all of them past their
\* reset_time
C20_Witness ==
    /\ lastCall.op = "reset_expired_strikes"
    /\ lastCall.reset_count = Len(strikes) /\ lastCall.reset_count >= 2
    /\ \A i \in DOMAIN strikes : strikes[i].active = 0 /\ strikes[i].reset_time < clock

\* C21: a failure inside one iteration of the periodic loop (in the sweep, in
\* the reading of the anchor, in a request of the refresh) never ends the loop:
\* the loop task is never dead, and an iteration performing a sweep always
\* follows (the parity of the iterations begun changes again and again).
C21_LoopNeverEnds ==
    /\ [](dash.loop.pc # "dead")
    /\ []<>(dash.iteration = 0)
    /\ []<>(dash.iteration = 1)

\* a sweep that failed in an iteration, and the loop back in its sleep
C21_Witness ==
    /\ lastCall.op = "reset_expired_strikes"
    /\ "store_error" \in DOMAIN lastCall
    /\ dash.loop.pc = "sleep"
    /\ dash.iteration = 1
    /\ dash.sent > 0

----------------------------------------------------------------------------
\* C29: the count that decides the escalation of a give_strike is the number of
\* the user's strikes whose active flag is 1 after the insert, those whose
\* reset_time has passed and that no sweep has deactivated yet included: the call
\* escalates exactly when that number is 3 or more, and punishes for that number.
C29_IssueStep ==
    \A u \in Users : IssuedTo(u) =>
        LET flagged == {i \in DOMAIN strikes' : strikes'[i].user_id = u
                                                /\ strikes'[i].active = 1}
            escalated == Len(timeoutLog'[u]) = Len(timeoutLog[u]) + 1
        IN /\ escalated <=> Cardinality(flagged) >= 3
           /\ escalated =>
                 timeoutLog'[u][Len(timeoutLog'[u])].strike_count = Cardinality(flagged)

C29_EscalationCountsUnsweptStrikes == [][C29_IssueStep]_vars

\* a third strike has escalated while the user's two earlier strikes were past
\* their reset_time and still active
C29_Witness ==
    /\ lastCall.op = "give_strike"
    /\ \E call \in pending :
          /\ call.user = lastCall.user
          /\ call.strike_id = Len(strikes)
          /\ call.strike_count = 3
          /\ Cardinality(DueAt(strikes, clock) \cap RowsOf(call.user)) = 2

----------------------------------------------------------------------------
\* a step of an engine operation taken while another connection holds the write
\* lock, in which an INSERT or UPDATE of the operation ran into the lock
BlockedWrite ==
    /\ dbBusy /\ dbBusy'
    /\ clock' = clock
    /\ "store_error" \in DOMAIN lastCall'

\* C22: an operation that cannot obtain the write lock gives up after its
\* bounded wait and fails with StoreError: it raises to its caller and writes
\* nothing.
C22_BlockedStep ==
    BlockedWrite =>
        /\ lastCall'.store_error.raised
        /\ strikes' = strikes /\ violations' = violations

C22_BlockedWriteFailsWithStoreError == [][C22_BlockedStep]_vars

----------------------------------------------------------------------------
\* the anchor get_dashboard_message returns now
Anchor == get_dashboard_message(dash.bot_state, "ok")

\* this step sent a dashboard message and saved its anchor
SaveStep == dash'.sent = dash.sent + 1

\* C25: bot_state never holds more than one anchor row; before the first save
\* get_dashboard_message returns no anchor, a save makes it return the channel
\* and message just saved, and until the next save it keeps returning that pair.
C25_OneAnchorRow ==
    /\ Len(KeyRows(dash.bot_state, "dashboard_message")) <= 1
    /\ dash.sent = 0 => Anchor = NoAnchor

C25_AnchorStep ==
    get_dashboard_message(dash'.bot_state, "ok") =
        IF SaveStep
        THEN <<(CHOOSE m \in dash'.messages \ dash.messages : TRUE).channel, 10 + dash'.sent>>
        ELSE Anchor

C25_AnchorIsLastSave == []C25_OneAnchorRow /\ [][C25_AnchorStep]_vars

\* a second anchor has been saved over the first one
C25_Witness ==
    /\ dash.sent = 2
    /\ Len(dash.bot_state) = 1
    /\ Anchor = <<1, 12>>

----------------------------------------------------------------------------
\* the stored anchor refers to a message that exists
AnchorLive ==
    Anchor # NoAnchor /\ [channel |-> Anchor[1], id |-> Anchor[2]] \in dash.messages

\* an anchor is stored and its message, or the channel it was in, is gone
AnchorStale == Anchor # NoAnchor /\ ~AnchorLive

\* this step is the start of a refresh by the periodic loop
RefreshStep == dash'.iteration # dash.iteration

\* C26: a refresh that finds the stored anchor stale, whether its message or
\* its channel is gone, goes on to replace it: it asks for the message (the
\* NotFound answer leads to the recreation) or starts the recreation; it does
\* not return leaving the anchor as it is.
C26_RefreshStep ==
    (RefreshStep /\ AnchorStale) =>
        dash'.loop.pc \in {"fetch_message", "create_channel", "send"}

C26_StaleAnchorIsRecreated == [][C26_RefreshStep]_vars

----------------------------------------------------------------------------
\* this step is the start of on_ready
ReadyStep == dash.ready.pc = "idle" /\ dash'.ready.pc # "idle"

\* C30: on_ready finding a stored anchor that refers to an existing dashboard
\* message does not go on to create a channel or to send a message.
C30_ReadyStep == ~(ReadyStep /\ AnchorLive)

C30_ReadyCreatesOnlyIfMissing == [][C30_ReadyStep]_vars

----------------------------------------------------------------------------
\* the rows of the summary's snapshot that belong to user u
SnapshotOf(u) == {i \in DOMAIN embed.active_strikes : embed.active_strikes[i].user_id = u}

\* this step took the snapshot of a summary
SnapshotStep == embed.pc \in {"idle", "done"} /\ embed'.pc # "idle" /\ embed' # embed

\* C23: the snapshot of a summary holds exactly the active strikes; the summary
\* has one field for each user with a strike in the snapshot and none for any
\* other user; a field carries the number of the user's strikes in the
\* snapshot, the violation count read from the store for that user, the
\* moderator and reason of a strike of the user that no other is more recent
\* than, and the earliest reset_time of the user's strikes.
C23_Fields ==
    /\ \A k \in DOMAIN embed.fields :
          LET f == embed.fields[k]
              rows == embed.active_strikes
              mine == SnapshotOf(f.user_id)
          IN /\ mine # {}
             /\ \A j \in DOMAIN embed.fields : j # k => embed.fields[j].user_id # f.user_id
             /\ f.strike_count = Cardinality(mine)
             /\ \E i \in mine :
                   /\ \A j \in mine : rows[j].timestamp <= rows[i].timestamp
                   /\ f.moderator_id = rows[i].moderator_id
                   /\ f.reason = rows[i].reason
             /\ \E i \in mine :
                   /\ \A j \in mine : rows[i].reset_time <= rows[j].reset_time
                   /\ f.next_reset = rows[i].reset_time
    /\ embed.pc = "done" =>
          {embed.fields[k].user_id : k \in DOMAIN embed.fields}
             = {embed.active_strikes[i].user_id : i \in DOMAIN embed.active_strikes}

C23_BuildStep ==
    /\ SnapshotStep =>
          /\ {r.id : r \in {embed'.active_strikes[i] : i \in DOMAIN embed'.active_strikes}}
                = {i \in DOMAIN strikes : strikes[i].active = 1}
          /\ Len(embed'.active_strikes) = Cardinality({i \in DOMAIN strikes : strikes[i].active = 1})
    /\ (embed.pc = "fetch_user" /\ embed'.pc = "fetch_moderator") =>
          embed'.violation_count = get_violation_count(violations, Head(embed.todo))
    /\ Len(embed'.fields) = Len(embed.fields) + 1 =>
          /\ embed'.fields[Len(embed'.fields)].user_id = Head(embed.todo)
          /\ embed'.fields[Len(embed'.fields)].violation_count = embed.violation_count

----------------------------------------------------------------------------
\* C24: a finished summary shows one store state that existed during the call.
\* The strikes shown are those of the snapshot; for a user none of whose
\* snapshot strikes has been deactivated since, the store held exactly those
\* active strikes only until the user's next strike was inserted, and the
\* violation count changes only in a step that inserts one: the count shown for
\* such a user has to be the one the store held at the snapshot.
C24_PointInTime ==
    embed.pc = "done" =>
        \A k \in DOMAIN embed.fields :
            LET f == embed.fields[k]
                mine == SnapshotOf(f.user_id)
            IN (\A i \in mine : strikes[embed.active_strikes[i].id].active = 1) =>
                  \A i \in mine : f.violation_count = embed.active_strikes[i].violation_count

----------------------------------------------------------------------------
\* the reason of the strike a field shows, as stored
StoredReason(f) ==
    LET mine == SnapshotOf(f.user_id)
        latest == CHOOSE i \in mine :
                     \A j \in mine : embed.active_strikes[j].timestamp
                                         <= embed.active_strikes[i].timestamp
    IN embed.active_strikes[latest].reason

\* C28 as stated: a reason longer than 47 characters is shown as its first 47
\* characters followed by an ellipsis, a reason of at most 47 characters as it is.
C28_TruncatedAbove47 ==
    \A k \in DOMAIN embed.fields :
        LET reason == StoredReason(embed.fields[k])
        IN embed.fields[k].reason =
              IF Len(reason) > 47 THEN SubSeq(reason, 1, 47) \o "..." ELSE reason

\* C28, amended: a reason longer than 50 characters is shown as its first 47
\* characters followed by an ellipsis (50 characters in all), a reason of at
\* most 50 characters as it is.
C28_TruncatedAbove50 ==
    \A k \in DOMAIN embed.fields :
        LET reason == StoredReason(embed.fields[k])
        IN embed.fields[k].reason =
              IF Len(reason) > 50 THEN SubSeq(reason, 1, 47) \o "..." ELSE reason

\* a finished summary showing a reason of 51 characters cut to 47 and "..."
C28_Witness ==
    /\ embed.pc = "done"
    /\ Len(embed.fields) = 1
    /\ Len(StoredReason(embed.fields[1])) = 51
    /\ Len(embed.fields[1].reason) = 50
    /\ SubSeq(embed.fields[1].reason, 48, 50) = "..."

----------------------------------------------------------------------------
\* this step is a restart of the process
RestartStep == lastCall'.op = "restart" /\ clock' = clock

\* C27: a restart changes no strike and no violation count, and every engine
\* operation gives on the store after the restart the result it gives on the
\* store before it: the queries, the insert with its count, the removal's choice
\* and the sweep.
C27_RestartStep ==
    RestartStep =>
        /\ strikes' = strikes
        /\ violations' = violations
        /\ \A u \in Users :
              /\ get_user_strike_info(strikes', violations', u)
                    = get_user_strike_info(strikes, violations, u)
              /\ FirstActiveStrikes(strikes', u) = FirstActiveStrikes(strikes, u)
              /\ increment_violation_count(violations', u)
                    = increment_violation_count(violations, u)
              /\ \A m \in Moderators, r \in Reasons :
                    add_strike(strikes', u, m, r, STRIKE_RESET_HOURS, clock')
                       = add_strike(strikes, u, m, r, STRIKE_RESET_HOURS, clock)
        /\ reset_expired_strikes(strikes', clock') = reset_expired_strikes(strikes, clock)

C27_RestartChangesNothing == [][C27_RestartStep]_vars

\* the process has just been restarted over a store in which user 1 holds 3
\* active strikes and 1 violation, after a timeout was requested for user 1
C27_Witness ==
    /\ lastCall.op = "restart"
    /\ pending = {}
    /\ Cardinality(ActiveIdsIn(strikes, 1)) = 3
    /\ get_violation_count(violations, 1) = 1
    /\ timeoutLog[1] # <<>>

----------------------------------------------------------------------------
\* C31: a give_strike call that returns the neutral result has inserted no
\* strike, changed no violation count and requested no suspension: it is not a
\* call resumed from user.timeout(...) (such a call had inserted its strike and
\* requested a suspension), and the step in which it ran and returned leaves the
\* strikes, the violations and the requested suspensions as they were.
C31_ZeroStep ==
    (GiveReturnStep /\ IsNeutral(lastCall')) =>
        /\ pending' = pending
        /\ strikes' = strikes
        /\ violations' = violations
        /\ timeoutLog' = timeoutLog

C31_NeutralResultRecordsNothing == [][C31_ZeroStep]_vars

----------------------------------------------------------------------------
\* C32: in every reachable state, for every user with n strike rows (strikes are
\* never deleted, so n is the number of strikes ever issued to the user), the
\* stored violation_count is at most n - 2 (0 when n < 2); a violations row
\* exists only for a user for whom a suspension was requested at an active
\* count of 3 or more, and every violations row holds a count of at least 1.
C32_ViolationBound ==
    \A u \in Users :
        LET n == Cardinality(RowsOf(u))
        IN /\ get_violation_count(violations, u) <= (IF n >= 2 THEN n - 2 ELSE 0)
           /\ u \in DOMAIN violations =>
                 /\ violations[u] >= 1
                 /\ \E k \in DOMAIN timeoutLog[u] :
                       timeoutLog[u][k].strike_count >= 3

\* a give_strike has just escalated a user for the second time: 4 strikes
\* issued, violation_count 2 = 4 - 2, the bound is met with equality
C32_Witness ==
    /\ lastCall.op = "give_strike"
    /\ Cardinality(RowsOf(lastCall.user)) = 4
    /\ lastCall.user \in DOMAIN violations
    /\ violations[lastCall.user] = 2
    /\ Len(timeoutLog[lastCall.user]) = 2

====
